---------------------------- MODULE Spec2Model ----------------------------
(***************************************************************************)
(* Model of archiveviewer/zip.py (class ZipRenderer): the URL matcher      *)
(* match_request, the link generator get_resource_url, and the request     *)
(* handler process_request with its walk through nested ZIP layers.        *)
(*                                                                         *)
(* Strings are sequences of one-character strings, so that the regular     *)
(* expressions, split('!'), lstrip('/'), strip('/') and the [2:] slice are *)
(* computed character by character.                                        *)
(***************************************************************************)
EXTENDS Integers, Sequences, FiniteSets, TLC

VARIABLES
    input,      \* the components the request was built from (kept for reference)
    req,        \* the request: path_info, args, X-Requested-With, If-Modified-Since
    pc,         \* position of the handler
    env,        \* the host environment: permission, attachment store, repository
    loc,        \* local variables of process_request
    log,        \* what the handler has done so far, in order
    response,   \* what was sent with req.send_response / send_header / _response
    result,     \* what the handler returned or raised
    scripts     \* scripts added by post_process_request

vars == <<input, req, pc, env, loc, log, response, result, scripts>>

(***************************************************************************)
(* Bounds of the model.                                                    *)
(***************************************************************************)
MaxInner   == 3   \* longest free-form inner path (after "!/") of a generated path
MaxZipSegs == 1   \* most "/zip" segments after the first prefix segment
MaxLayers  == 2   \* most archive layers named by a handled request
MaxDepth   == 2   \* nesting depth of the stored archive

(***************************************************************************)
(* Python values.                                                          *)
(***************************************************************************)
\* None where a string is expected: a sequence no string equals.
None    == <<"<None>">>
\* None where an object is expected.
NoneObj == [kind |-> "None"]

LF == "\n"

Truthy(s) == s # None /\ s # <<>>


\* All strings over alphabet A of length lo..hi.
Strs(A, lo, hi) == UNION {[1..k -> A] : k \in lo..hi}

s_zip        == <<"z","i","p">>
s_raw        == <<"r","a","w">>
s_rawdash    == <<"r","a","w","-">>
s_slashzip   == <<"/","z","i","p">>
s_attachment == <<"a","t","t","a","c","h","m","e","n","t">>
s_export     == <<"e","x","p","o","r","t">>
s_browser    == <<"b","r","o","w","s","e","r">>
s_file       == <<"f","i","l","e">>
s_bangslash  == <<"!","/">>

\* s[i:] for a 1-based position i (the whole of s from its i-th character).
From(s, i) == IF i > Len(s) THEN <<>> ELSE SubSeq(s, i, Len(s))

\* Whether literal lit occurs in p at position i.
StartsWithAt(p, i, lit) ==
    /\ i >= 1
    /\ i + Len(lit) - 1 <= Len(p)
    /\ SubSeq(p, i, i + Len(lit) - 1) = lit

\* The first position >= i holding a character of stop, or Len(p)+1.
RECURSIVE RunEnd(_, _, _)
RunEnd(p, i, stop) ==
    IF i > Len(p) \/ p[i] \in stop THEN i ELSE RunEnd(p, i + 1, stop)

\* Lexicographic >= on tuples of integers of equal length.
RECURSIVE LexGE(_, _)
LexGE(a, b) ==
    IF a = <<>> THEN TRUE
    ELSE IF a[1] # b[1] THEN a[1] > b[1]
    ELSE LexGE(Tail(a), Tail(b))

(***************************************************************************)
(* trac.resource.Resource                                                  *)
(***************************************************************************)
Resource(realm, id) ==
    [kind |-> "Resource", realm |-> realm, id |-> id, version |-> None,
     parent |-> NoneObj]

Child(parent, realm, id, version) ==
    [kind |-> "Resource", realm |-> realm, id |-> id, version |-> version,
     parent |-> parent]

(***************************************************************************)
(* match_request: the two regular expressions.  A match is tried as        *)
(* Python's re does: every way the pattern can consume the path is a       *)
(* candidate, and the candidate that the backtracking search finds first   *)
(* (each greedy quantifier as long as possible, each optional group        *)
(* present if possible, earlier quantifiers deciding first) is the match.  *)
(***************************************************************************)

\* Positions after "/(raw-)?zip(?:/zip)*": [raw, pos] for every count of
\* "/zip" repetitions.
RECURSIVE ZipStops(_, _)
ZipStops(p, pos) ==
    {pos} \cup (IF StartsWithAt(p, pos, s_slashzip)
                THEN ZipStops(p, pos + 4) ELSE {})

PrefixStops(p) ==
    IF ~StartsWithAt(p, 1, <<"/">>) THEN {}
    ELSE LET withRaw == IF StartsWithAt(p, 2, s_rawdash \o s_zip)
                        THEN {[raw |-> TRUE, pos |-> q] : q \in ZipStops(p, 9)}
                        ELSE {}
             noRaw   == IF StartsWithAt(p, 2, s_zip)
                        THEN {[raw |-> FALSE, pos |-> q] : q \in ZipStops(p, 5)}
                        ELSE {}
         IN  withRaw \cup noRaw

\* "$": the end of the string, or just before a final newline.
AtEnd(p, pos) ==
    \/ pos = Len(p) + 1
    \/ pos = Len(p) /\ p[pos] = LF

\* "(@.+)?$" from position pe: [rp, re] with rp = 1 when the group took part.
RevTails(p, pe) ==
    LET present == IF StartsWithAt(p, pe, <<"@">>)
                   THEN {[rp |-> 1, re |-> re] :
                            re \in (pe + 2)..RunEnd(p, pe + 1, {LF})}
                   ELSE {}
        absent  == {[rp |-> 0, re |-> pe]}
    IN  {t \in present \cup absent : AtEnd(p, t.re)}

\* "(!/<body>+)?(@.+)?$" from position a, where body excludes the
\* characters of stop: [pp, pe, rp, re].
PathTails(p, a, stop) ==
    LET present == IF StartsWithAt(p, a, s_bangslash)
                   THEN {[pp |-> 1, pe |-> pe] :
                            pe \in (a + 3)..RunEnd(p, a + 2, stop)}
                   ELSE {}
        absent  == {[pp |-> 0, pe |-> a]}
    IN  UNION {{[pp |-> t.pp, pe |-> t.pe, rp |-> r.rp, re |-> r.re] :
                    r \in RevTails(p, t.pe)} : t \in present \cup absent}

\* r'/(raw-)?zip(?:/zip)*/attachment/([^/]+)/([^!]*)/([^/!]+)(!/.+)?(@.+)?$'
AttachmentCands(p) ==
    UNION {
      IF ~StartsWithAt(p, st.pos, <<"/">> \o s_attachment \o <<"/">>) THEN {}
      ELSE LET s == st.pos + 12 IN
        UNION {
          IF ~StartsWithAt(p, r, <<"/">>) THEN {}
          ELSE UNION {
            IF ~StartsWithAt(p, i, <<"/">>) THEN {}
            ELSE UNION {
              {[raw |-> st.raw, s |-> s, r |-> r, i |-> i, a |-> a,
                pp |-> t.pp, pe |-> t.pe, rp |-> t.rp, re |-> t.re,
                key |-> <<st.pos, r, i, a, t.pp, t.pe, t.rp, t.re>>] :
                  t \in PathTails(p, a, {LF})}
              : a \in (i + 2)..RunEnd(p, i + 1, {"/", "!"})}
            : i \in (r + 1)..RunEnd(p, r + 1, {"!"})}
          : r \in (s + 1)..RunEnd(p, s, {"/"})}
      : st \in PrefixStops(p)}

\* r'/(raw-)?zip(?:/zip)*/(export|browser|file)/([^!]+)(!/[^@]+)?(@.+)?$'
BrowserCands(p) ==
    UNION {
      UNION {
        IF ~StartsWithAt(p, st.pos, <<"/">> \o w \o <<"/">>) THEN {}
        ELSE LET s == st.pos + Len(w) + 2 IN
          UNION {
            {[raw |-> st.raw, realm |-> w, s |-> s, i |-> i,
              pp |-> t.pp, pe |-> t.pe, rp |-> t.rp, re |-> t.re,
              key |-> <<st.pos, i, t.pp, t.pe, t.rp, t.re>>] :
                t \in PathTails(p, i, {"@"})}
            : i \in (s + 1)..RunEnd(p, s, {"!"})}
        : w \in {s_export, s_browser, s_file}}
      : st \in PrefixStops(p)}

\* The candidate the backtracking search reaches first.
First(cands) == CHOOSE c \in cands : \A d \in cands : LexGE(c.key, d.key)

\* match.groups() pieces shared by both patterns.
GroupFormat(c) == IF c.raw THEN s_rawdash ELSE None
GroupPath(p, c, a) == IF c.pp = 1 THEN SubSeq(p, a, c.pe - 1) ELSE None
GroupRev(p, c)  == IF c.rp = 1 THEN SubSeq(p, c.pe, c.re - 1) ELSE None

\* args[k] := v, adding the key when it is new.
SetArg(args, k, v) ==
    [x \in DOMAIN args \cup {k} |-> IF x = k THEN v ELSE args[x]]

SetRev(args, rev) ==
    IF Truthy(rev) THEN SetArg(args, "rev", From(rev, 2)) ELSE args

\* match_request(req): [matched, args].
match_request(path_info, args) ==
    LET ac == AttachmentCands(path_info)
        bc == BrowserCands(path_info)
    IN  IF ac # {}
        THEN LET c == First(ac)
                 realm   == SubSeq(path_info, c.s, c.r - 1)
                 id      == SubSeq(path_info, c.r + 1, c.i - 1)
                 archive == SubSeq(path_info, c.i + 1, c.a - 1)
                 a1 == SetArg(args, "format", GroupFormat(c))
                 a2 == SetArg(a1, "path", GroupPath(path_info, c, c.a))
                 a3 == SetArg(a2, "attachment",
                              Child(Resource(realm, id), s_attachment, archive, None))
             IN  [matched |-> TRUE, args |-> SetRev(a3, GroupRev(path_info, c))]
        ELSE IF bc # {}
        THEN LET c == First(bc)
                 id == SubSeq(path_info, c.s, c.i - 1)
                 a1 == SetArg(args, "format", GroupFormat(c))
                 a2 == SetArg(a1, "path", GroupPath(path_info, c, c.i))
                 a3 == SetArg(a2, "browser", Resource(c.realm, id))
             IN  [matched |-> TRUE, args |-> SetRev(a3, GroupRev(path_info, c))]
        ELSE [matched |-> FALSE, args |-> args]


(***************************************************************************)
(* Link generation: get_resource_url and the host helpers it calls.        *)
(***************************************************************************)

\* Characters urllib's quote escapes (safe = "/!~*'()"), with their codes.
PctChars == {"@", LF, "%"}
PctCode(c) ==
    CASE c = "@" -> <<"%","4","0">>
      [] c = LF  -> <<"%","0","A">>
      [] c = "%" -> <<"%","2","5">>

\* trac.util.text.unicode_quote as Href applies it to a path argument.
RECURSIVE unicode_quote(_)
unicode_quote(s) ==
    IF s = <<>> THEN <<>>
    ELSE (IF Head(s) \in PctChars THEN PctCode(Head(s)) ELSE <<Head(s)>>)
         \o unicode_quote(Tail(s))

\* trac.util.text.unicode_unquote: every %XX escape back to its character.
RECURSIVE unicode_unquote(_)
unicode_unquote(s) ==
    IF s = <<>> THEN <<>>
    ELSE IF \E c \in PctChars : StartsWithAt(s, 1, PctCode(c))
    THEN <<CHOOSE c \in PctChars : StartsWithAt(s, 1, PctCode(c))>>
         \o unicode_unquote(From(s, 4))
    ELSE <<Head(s)>> \o unicode_unquote(Tail(s))

\* str.lstrip('/'), str.rstrip('/') and str.strip('/').
RECURSIVE lstrip(_)
lstrip(s) == IF s # <<>> /\ Head(s) = "/" THEN lstrip(Tail(s)) ELSE s

RECURSIVE rstrip(_)
rstrip(s) ==
    IF s # <<>> /\ s[Len(s)] = "/" THEN rstrip(SubSeq(s, 1, Len(s) - 1)) ELSE s

strip(s) == lstrip(rstrip(s))

\* '/'.join(parts)
RECURSIVE Join(_, _)
Join(parts, sep) ==
    IF parts = <<>> THEN <<>>
    ELSE IF Len(parts) = 1 THEN parts[1]
    ELSE parts[1] \o sep \o Join(Tail(parts), sep)

\* Href('')(*args): every argument stripped of its outer slashes and quoted,
\* joined with '/', behind one leading '/'.
Href(args) ==
    LET path == Join([k \in 1..Len(args) |-> unicode_quote(strip(args[k]))],
                     <<"/">>)
    IN  IF path # <<>> THEN <<"/">> \o strip(path) ELSE <<"/">>

RECURSIVE HostResourceUrl(_)
RECURSIVE get_resource_url(_, _)

\* trac.resource.get_resource_url(env, resource, Href('')): the manager of
\* the resource's realm builds the URL; AttachmentModule for 'attachment',
\* ZipRenderer for 'zip' and 'raw-zip', href(realm, id) otherwise.
HostResourceUrl(resource) ==
    IF resource.realm \in {s_zip, s_rawdash \o s_zip}
    THEN get_resource_url(resource, None)
    ELSE IF resource.realm = s_attachment
    THEN IF resource.parent = NoneObj THEN None
         ELSE Href(<<s_attachment,
                     unicode_unquote(HostResourceUrl(resource.parent)),
                     resource.id>>)
    ELSE Href(<<resource.realm, resource.id>>)

\* ZipRenderer.get_resource_url(resource, href, format=format_): the path of
\* the URL (keyword arguments other than format go to the query string).
get_resource_url(resource, format_) ==
    IF resource.parent = NoneObj THEN None
    ELSE LET prefix == IF format_ = s_raw THEN format_ \o <<"-">> \o s_zip
                       ELSE s_zip
             parent_href == unicode_unquote(HostResourceUrl(resource.parent))
             id == IF Truthy(resource.id) THEN resource.id ELSE <<>>
         IN  Href(<<prefix, parent_href \o s_bangslash \o id>>)


(***************************************************************************)
(* Requests and links the model is run on.                                 *)
(***************************************************************************)
\* Names looked up in archives: a file, a nested archive, a name no archive
\* holds, a directory member.
Elements == {<<"a">>, <<"n">>, <<"x">>, <<"d","/">>}

\* "!/e1!/e2.../en" without its leading "!/".
LayeredInners ==
    {Join(es, s_bangslash) : es \in Strs(Elements, 1, MaxLayers)}

FormRealms   == {<<>>, <<"w">>}
FormIds      == {<<>>, <<"p">>, <<"p","/","q">>}
FormArchives == {<<>>, <<"z">>}
InnerChars   == {"a", "/", "!", "@", LF}
FormInners   == Strs(InnerChars, 1, MaxInner) \cup LayeredInners

\* A request path given by its parts: /<prefix>/attachment/<realm>/<id>/<archive>!/<inner>
FormInputs ==
    [kind : {"form"}, raw : BOOLEAN, nzip : 0..MaxZipSegs,
     realm : FormRealms, id : FormIds, archive : FormArchives,
     inner : FormInners]

RECURSIVE Repeat(_, _)
Repeat(s, k) == IF k = 0 THEN <<>> ELSE s \o Repeat(s, k - 1)

ComposePath(f) ==
    <<"/">> \o (IF f.raw THEN s_rawdash ELSE <<>>) \o s_zip
    \o Repeat(s_slashzip, f.nzip)
    \o <<"/">> \o s_attachment \o <<"/">>
    \o f.realm \o <<"/">> \o f.id \o <<"/">> \o f.archive
    \o s_bangslash \o f.inner

\* Links: a 'zip' resource below an attachment, through 1..MaxLayers layers.
LinkAttachments ==
    {Child(Resource(<<"w">>, id), s_attachment, archive, None) :
        id \in {<<"p">>, <<"p","/","q">>},
        archive \in {<<"z">>, <<"z","!","1">>}}

LinkEntryIds == {<<"a">>, <<"d","/">>, <<"a","@","1">>}

RECURSIVE ZipResources(_, _)
ZipResources(parents, k) ==
    IF k = 0 THEN {}
    ELSE LET kids == {Child(par, s_zip, id, None) :
                         par \in parents, id \in LinkEntryIds}
         IN  kids \cup ZipResources(kids, k - 1)

LinkInputs ==
    [kind : {"link"}, resource : ZipResources(LinkAttachments, MaxLayers),
     format : {None, s_raw}]

\* What a link denotes: its attachment and its inner path, layer by layer.
RECURSIVE LinkAttachment(_)
LinkAttachment(r) ==
    IF r.realm = s_attachment THEN r ELSE LinkAttachment(r.parent)

RECURSIVE LinkInner(_)
LinkInner(r) ==
    IF r.realm = s_attachment THEN <<>>
    ELSE LinkInner(r.parent) \o s_bangslash \o r.id

NoArgs == [k \in {} |-> None]

NewRequest(path_info, args, xhr, ims) ==
    [path_info |-> path_info, args |-> args, xhr |-> xhr, ims |-> ims]

NoResponse ==
    [status |-> <<>>, headers |-> <<>>, ended |-> FALSE, body |-> NoneObj]

NoResult == [kind |-> "none"]
NoEnv    == [kind |-> "none"]
NoLocals == [kind |-> "none"]

(***************************************************************************)
(* The matcher and the link generator on their own.                        *)
(***************************************************************************)
InitMatch ==
    /\ input \in FormInputs \cup LinkInputs
    /\ req = NewRequest(IF input.kind = "form" THEN ComposePath(input) ELSE None,
                        NoArgs, FALSE, None)
    /\ pc = "new"
    /\ env = NoEnv
    /\ loc = NoLocals
    /\ log = <<>>
    /\ response = NoResponse
    /\ result = NoResult
    /\ scripts = {}

\* render(): the link of a 'zip' resource is generated, and the client
\* requests it; the server hands the unquoted path to the handlers.
GenerateLink ==
    /\ pc = "new"
    /\ input.kind = "link"
    /\ req' = [req EXCEPT !.path_info =
                unicode_unquote(get_resource_url(input.resource, input.format))]
    /\ pc' = "linked"
    /\ UNCHANGED <<input, env, loc, log, response, result, scripts>>

\* The request dispatcher asks match_request.
MatchRequest ==
    /\ \/ pc = "new" /\ input.kind # "link"
       \/ pc = "linked"
    /\ req.path_info # None
    /\ LET m == match_request(req.path_info, req.args)
       IN  /\ req' = [req EXCEPT !.args = m.args]
           /\ result' = [kind |-> "match", matched |-> m.matched]
    /\ pc' = "matched"
    /\ UNCHANGED <<input, env, loc, log, response, scripts>>

NextMatch == GenerateLink \/ MatchRequest

SpecMatch == InitMatch /\ [][NextMatch]_vars


(***************************************************************************)
(* Files and ZIP archives (zipfile.ZipFile as the handler uses it).        *)
(***************************************************************************)
Blob(tag) == [kind |-> "blob", tag |-> tag]

ZipInfo(filename, file_size, date_time, content) ==
    [filename |-> filename, file_size |-> file_size, date_time |-> date_time,
     content |-> content]

\* An archive nested k deep: a directory member "d/", a file "a" and a
\* member "n" that is an archive nested k-1 deep (a plain file for k = 1).
\* Sizes and times differ from layer to layer and from member to member.
RECURSIVE Nest(_)
Nest(k) ==
    IF k = 0 THEN Blob(0)
    ELSE [kind |-> "zip",
          infolist |-> << ZipInfo(<<"d","/">>, 0, 3 * k, Blob(3 * k)),
                          ZipInfo(<<"a">>, 10 * k + 1, 3 * k + 1, Blob(3 * k + 1)),
                          ZipInfo(<<"n">>, 10 * k + 2, 3 * k + 2, Nest(k - 1)) >>]

\* ZipFile(fileobj): the archive read from a file, or BadZipFile.
IsZip(fileobj) == fileobj.content.kind = "zip"
ZipFile(fileobj) ==
    [kind |-> "ZipFile", infolist |-> fileobj.content.infolist,
     layer |-> fileobj.layer + 1]

\* zipfile.getinfo(name): the member of that name, or KeyError.
HasMember(zipfile, name) ==
    \E k \in 1..Len(zipfile.infolist) : zipfile.infolist[k].filename = name
getinfo(zipfile, name) ==
    zipfile.infolist[CHOOSE k \in 1..Len(zipfile.infolist) :
                        zipfile.infolist[k].filename = name]

\* zipfile.open(name): a file object on the member's content.
zipopen(zipfile, name) ==
    [kind |-> "fileobj", content |-> getinfo(zipfile, name).content,
     layer |-> zipfile.layer]

\* str.split('!')
RECURSIVE split(_, _)
split(s, sep) ==
    LET k == RunEnd(s, 1, {sep})
    IN  IF k > Len(s) THEN <<s>>
        ELSE <<SubSeq(s, 1, k - 1)>> \o split(From(s, k + 1), sep)

\* http_date(to_datetime(datetime(*zipinfo.date_time))): the time as text.
DigitStr == <<"0","1","2","3","4","5","6","7","8","9">>
RECURSIVE Decimal(_)
Decimal(t) ==
    IF t < 10 THEN <<DigitStr[t + 1]>>
    ELSE Decimal(t \div 10) \o <<DigitStr[(t % 10) + 1]>>
http_date(date_time) == <<"G","M","T"," ">> \o Decimal(date_time)

\* str.lower() on the letters revisions are written with here.
LowerChar(c) == CASE c = "H" -> "h" [] c = "E" -> "e" [] c = "A" -> "a"
                  [] c = "D" -> "d" [] OTHER -> c
lower(s) == [k \in 1..Len(s) |-> LowerChar(s[k])]


(***************************************************************************)
(* process_request: inputs.                                                *)
(***************************************************************************)
\* A request for an attachment or a repository file, with its inner path
\* "!/e1!/.../en" (none for no layers).
HandledInputs ==
    [kind : {"handled"}, target : {s_attachment, s_browser, s_export},
     raw : BOOLEAN, layers : Strs(Elements, 0, MaxLayers)]

\* A request for "/" that the dispatcher hands to its default handler
\* without a match; its arguments come from the query string.
DefaultInputs ==
    [kind : {"default"},
     args : {[k \in {"path"} |-> <<>>],
             [k \in {"path"} |-> <<"!","/","a">>]}]

HandledPath(f) ==
    <<"/">> \o (IF f.raw THEN s_rawdash ELSE <<>>) \o s_zip
    \o <<"/">> \o f.target \o <<"/">>
    \o (IF f.target = s_attachment THEN <<"w","/","p","/","z">>
                                   ELSE <<"r","/","z">>)
    \o (IF f.layers = <<>> THEN <<>>
        ELSE s_bangslash \o Join(f.layers, s_bangslash))

\* The attachment table's row (size and date of the attached file), and the
\* stored file: none, a file that is no archive, or a nested archive.
AttachmentRow == [size |-> 100, date |-> 50]
Stores      == {NoneObj, Blob(99), Nest(MaxDepth)}
RepoStates  == {"ok", "unknown", "none"}
Environments ==
    [perm : BOOLEAN, store : Stores, repo : RepoStates]

IfModifiedSince == {None, http_date(3 * 1 + 1), http_date(3 * MaxDepth + 1)}

Get(args, k, default) == IF k \in DOMAIN args THEN args[k] ELSE default

Locals ==
    [attachment |-> NoneObj, browser |-> NoneObj, resource |-> NoneObj,
     xhr |-> FALSE, rev |-> None, name |-> None, element |-> None,
     todo |-> <<>>, fileobj |-> NoneObj, zipfile |-> NoneObj,
     zipinfo |-> NoneObj, reponame |-> None, repos |-> NoneObj,
     path |-> None, node |-> NoneObj, context |-> NoneObj,
     mime_type |-> "",
     bound |-> {}]

Init ==
    /\ input \in HandledInputs \cup DefaultInputs
    /\ \E xhr \in BOOLEAN, ims \in IfModifiedSince :
         req = NewRequest(IF input.kind = "handled" THEN HandledPath(input)
                                                    ELSE <<"/">>,
                          IF input.kind = "default" THEN input.args ELSE NoArgs,
                          xhr, ims)
    /\ env \in Environments
    /\ input.kind = "handled" /\ input.target = s_attachment => env.repo = "ok"
    /\ input.kind = "default" => env.repo = "ok"
    /\ pc = "new"
    /\ loc = Locals
    /\ log = <<>>
    /\ response = NoResponse
    /\ result = NoResult
    /\ scripts = {}

Raise(exc) ==
    /\ result' = [kind |-> "raise", exc |-> exc]
    /\ pc' = "raised"

Return(template, data) ==
    /\ result' = [kind |-> "template", template |-> template, data |-> data]
    /\ pc' = "returned"


(***************************************************************************)
(* process_request, step by step.                                          *)
(***************************************************************************)

\* The host handler the request is delegated to, and what it may answer.
HostHandlerAttachmentOnly(browser) == "AttachmentModule"
HostHandler(browser) ==
    IF browser # NoneObj THEN "BrowserModule" ELSE "AttachmentModule"

HostAnswers(handler) ==
    {[kind |-> "template",
      template |-> IF handler = "BrowserModule" THEN "browser.html"
                                                ELSE "attachment.html",
      data |-> [by |-> handler]],
     [kind |-> "raise", exc |-> "ResourceNotFound"]}

\* Lines 153-160: the arguments are read; a request without inner path
\* that is no XMLHttpRequest is handed to the host's own handler.
Begin ==
    /\ pc = "matched"
    /\ result.matched \/ input.kind = "default"
    /\ LET attachment == Get(req.args, "attachment", NoneObj)
           browser    == Get(req.args, "browser", NoneObj)
           resource   == IF attachment # NoneObj THEN attachment ELSE browser
           xhr        == req.xhr
       IN  IF "path" \notin DOMAIN req.args
           THEN Raise("KeyError") /\ UNCHANGED <<req, loc, log>>
           ELSE IF ~Truthy(req.args["path"]) /\ ~xhr
           THEN IF resource = NoneObj
                THEN Raise("AttributeError") /\ UNCHANGED <<req, loc, log>>
                ELSE /\ req' = [req EXCEPT !.args = SetArg(@, "path", resource.id)]
                     /\ \E answer \in HostAnswers(HostHandler(browser)) :
                          /\ result' = [kind |-> "delegated",
                                        handler |-> HostHandler(browser),
                                        answer |-> answer]
                          /\ pc' = IF answer.kind = "template" THEN "returned"
                                                               ELSE "raised"
                     /\ log' = Append(log, [ev |-> "delegate",
                                            handler |-> HostHandler(browser)])
                     /\ UNCHANGED loc
           ELSE /\ loc' = [loc EXCEPT !.attachment = attachment,
                                      !.browser = browser,
                                      !.resource = resource,
                                      !.xhr = xhr]
                /\ pc' = "rev"
                /\ UNCHANGED <<req, log, result>>
    /\ UNCHANGED <<input, env, response, scripts>>

\* Lines 162-164: rev = None for '' and 'head'.
NormalizeRev ==
    /\ pc = "rev"
    /\ LET rev == Get(req.args, "rev", None)
       IN  loc' = [loc EXCEPT !.rev =
                     IF Truthy(rev) /\ lower(rev) \in {<<>>, <<"h","e","a","d">>}
                     THEN None ELSE rev]
    /\ pc' = "permission"
    /\ UNCHANGED <<input, req, env, log, response, result, scripts>>

\* A require() whose failure is not raised.
RequireUnenforced(action, next) ==
    /\ log' = Append(log, [ev |-> "require", action |-> action,
                           resource |-> loc.resource, passed |-> env.perm])
    /\ pc' = next
    /\ UNCHANGED result

\* req.perm(resource).require(action)
Require(action, next) ==
    /\ log' = Append(log, [ev |-> "require", action |-> action,
                           resource |-> loc.resource, passed |-> env.perm])
    /\ IF env.perm THEN pc' = next /\ UNCHANGED result
                   ELSE Raise("PermissionError")

\* Lines 165-166.
RequireAttachmentView ==
    /\ pc = "permission"
    /\ loc.attachment # NoneObj
    /\ Require("ATTACHMENT_VIEW", "attachment")
    /\ UNCHANGED <<input, req, env, loc, response, scripts>>

\* Lines 167-168: the attachment's row is read and its file opened.
OpenAttachment ==
    /\ pc = "attachment"
    /\ IF env.store = NoneObj
       THEN Raise("ResourceNotFound") /\ UNCHANGED <<loc, log>>
       ELSE /\ loc' = [loc EXCEPT
                 !.attachment = [kind |-> "Attachment",
                                 resource |-> loc.attachment,
                                 size |-> AttachmentRow.size,
                                 date |-> AttachmentRow.date],
                 !.fileobj = [kind |-> "fileobj", content |-> env.store,
                              layer |-> 0],
                 !.bound = @ \cup {"fileobj"}]
            /\ log' = Append(log, [ev |-> "open", what |-> "attachment"])
            /\ pc' = "name"
            /\ UNCHANGED result
    /\ UNCHANGED <<input, req, env, response, scripts>>

\* Lines 170-171.
RequireFileView ==
    /\ pc = "permission"
    /\ loc.attachment = NoneObj
    /\ loc.browser # NoneObj
    /\ Require("FILE_VIEW", "repository")
    /\ UNCHANGED <<input, req, env, loc, response, scripts>>

\* Lines 172-182: the repository and the node of the path are looked up.
LocateNode ==
    /\ pc = "repository"
    /\ CASE env.repo = "unknown" ->
              Raise("ResourceNotFound") /\ UNCHANGED loc
         [] env.repo = "none" ->
              /\ loc' = [loc EXCEPT !.reponame = <<>>, !.repos = NoneObj,
                                    !.path = loc.resource.id,
                                    !.bound = @ \cup {"reponame", "repos", "path"}]
              /\ pc' = "content"
              /\ UNCHANGED result
         [] env.repo = "ok" /\ env.store = NoneObj ->
              Raise("ResourceNotFound") /\ UNCHANGED loc
         [] OTHER ->
              /\ loc' = [loc EXCEPT
                    !.reponame = <<"r">>,
                    !.repos = [kind |-> "Repository"],
                    !.path = From(loc.resource.id, 3),
                    !.node = [kind |-> "Node", created_rev |-> 1,
                              content_length |-> AttachmentRow.size],
                    !.bound = @ \cup {"reponame", "repos", "path", "node"}]
              /\ pc' = "content"
              /\ UNCHANGED result
    /\ UNCHANGED <<input, req, env, log, response, scripts>>

\* Line 183: fileobj = node.get_content()
GetContent ==
    /\ pc = "content"
    /\ IF "node" \notin loc.bound
       THEN Raise("UnboundLocalError") /\ UNCHANGED <<loc, log>>
       ELSE /\ loc' = [loc EXCEPT
                 !.fileobj = [kind |-> "fileobj", content |-> env.store,
                              layer |-> 0],
                 !.bound = @ \cup {"fileobj"}]
            /\ log' = Append(log, [ev |-> "open", what |-> "node"])
            /\ pc' = "name"
            /\ UNCHANGED result
    /\ UNCHANGED <<input, req, env, response, scripts>>

\* Lines 184-185.
NotImplemented ==
    /\ pc = "permission"
    /\ loc.attachment = NoneObj
    /\ loc.browser = NoneObj
    /\ Raise("TracError: Not Implemented")
    /\ UNCHANGED <<input, req, env, loc, log, response, scripts>>

\* Lines 187-192: the name without its leading "!/", and the log line that
\* reads attachment.resource.id.
LogName ==
    /\ pc = "name"
    /\ LET name == From(IF Truthy(req.args["path"]) THEN req.args["path"]
                                                    ELSE <<>>, 3)
       IN  IF loc.attachment = NoneObj
           THEN Raise("AttributeError") /\ UNCHANGED loc
           ELSE /\ loc' = [loc EXCEPT
                     !.name = name,
                     !.todo = IF name # <<>>
                              THEN LET parts == split(name, "!")
                                   IN  [k \in 1..Len(parts) |-> lstrip(parts[k])]
                              ELSE <<>>]
                /\ pc' = IF name # <<>> THEN "loop" ELSE "context"
                /\ UNCHANGED result
    /\ UNCHANGED <<input, req, env, log, response, scripts>>

\* Lines 193-202: one round of the loop over the elements; a member that
\* is missing ends the request with the error named.
OpenLayerRaising(missing) ==
    /\ pc = "loop"
    /\ LET element == Head(loc.todo)
           zipfile == ZipFile(loc.fileobj)
       IN  IF ~IsZip(loc.fileobj)
           THEN /\ Raise("BadZipFile")
                /\ loc' = [loc EXCEPT !.element = element,
                                      !.bound = @ \cup {"element"}]
                /\ UNCHANGED log
           ELSE IF ~HasMember(zipfile, element)
           THEN /\ Raise(missing)
                /\ loc' = [loc EXCEPT !.element = element, !.zipfile = zipfile,
                                      !.bound = @ \cup {"element", "zipfile"}]
                /\ log' = log \o <<[ev |-> "ZipFile", layer |-> zipfile.layer,
                                    of |-> loc.fileobj.content],
                                   [ev |-> "zipfile.open", layer |-> zipfile.layer,
                                    element |-> element, found |-> FALSE]>>
           ELSE /\ loc' = [loc EXCEPT !.element = element, !.zipfile = zipfile,
                                      !.fileobj = zipopen(zipfile, element),
                                      !.todo = Tail(@),
                                      !.bound = @ \cup {"element", "zipfile"}]
                /\ log' = log \o <<[ev |-> "ZipFile", layer |-> zipfile.layer,
                                    of |-> loc.fileobj.content],
                                   [ev |-> "zipfile.open", layer |-> zipfile.layer,
                                    element |-> element, found |-> TRUE]>>
                /\ pc' = IF Tail(loc.todo) = <<>> THEN "context" ELSE "loop"
                /\ UNCHANGED result
    /\ UNCHANGED <<input, req, env, response, scripts>>

\* The loop without its except clause.
OpenLayerUncaught == OpenLayerRaising("KeyError")

\* except KeyError: raise ResourceNotFound (lines 198-202).
OpenLayer == OpenLayerRaising("ResourceNotFound")

\* Lines 203-205: the rendering context.
MakeContext ==
    /\ pc = "context"
    /\ loc' = [loc EXCEPT !.context =
                 IF loc.name # <<>>
                 THEN [kind |-> "Context",
                       resource |-> Child(loc.resource, s_zip, loc.name, loc.rev)]
                 ELSE [kind |-> "Context", resource |-> NoneObj]]
    /\ pc' = IF loc.xhr THEN "xhr" ELSE "info"
    /\ UNCHANGED <<input, req, env, log, response, result, scripts>>


\* Lines 207-227: the listing answered to an XMLHttpRequest.
DirEntries(zipfile, l, path_arg) ==
    LET keep == {k \in 1..Len(zipfile.infolist) :
                    zipfile.infolist[k].filename[Len(zipfile.infolist[k].filename)] # "/"}
        Nth[j \in 0..Len(zipfile.infolist)] ==
            IF j = 0 THEN <<>>
            ELSE Nth[j - 1] \o
                 (IF j \in keep
                  THEN <<[name |-> zipfile.infolist[j].filename,
                          content_length |-> zipfile.infolist[j].file_size,
                          path |-> l.path
                                   \o (IF Truthy(path_arg) THEN path_arg ELSE <<>>)
                                   \o s_bangslash \o zipfile.infolist[j].filename,
                          created_rev |-> l.node.created_rev]>>
                  ELSE <<>>)
    IN  Nth[Len(zipfile.infolist)]

XhrListing ==
    /\ pc = "xhr"
    /\ IF ~IsZip(loc.fileobj)
       THEN Raise("BadZipFile") /\ UNCHANGED <<loc, log>>
       ELSE /\ loc' = [loc EXCEPT !.zipfile = ZipFile(loc.fileobj),
                                  !.bound = @ \cup {"zipfile"}]
            /\ log' = Append(log, [ev |-> "ZipFile",
                                   layer |-> loc.fileobj.layer + 1,
                                   of |-> loc.fileobj.content])
            /\ IF {"reponame", "node", "path"} \subseteq loc.bound
               THEN Return("dir_entries.html",
                           [reponame |-> loc.reponame,
                            stickyrev |-> loc.node.created_rev,
                            entries |-> DirEntries(ZipFile(loc.fileobj), loc,
                                                   req.args["path"])])
               ELSE Raise("UnboundLocalError")
    /\ UNCHANGED <<input, req, env, response, scripts>>

\* Mimeview.get_mimetype and get_charset on the first bytes of the entry.
HostMimeType(content) ==
    IF content.kind = "zip" THEN "application/zip; charset=iso-8859-15"
                            ELSE "text/plain; charset=utf-8"

\* Lines 229-247: the member's ZipInfo and its MIME type.
GetInfo ==
    /\ pc = "info"
    /\ IF ~({"zipfile", "element"} \subseteq loc.bound)
       THEN Raise("UnboundLocalError") /\ UNCHANGED loc
       ELSE IF ~HasMember(loc.zipfile, loc.element)
       THEN Raise("ResourceNotFound") /\ UNCHANGED loc
       ELSE /\ loc' = [loc EXCEPT
                 !.zipinfo = getinfo(loc.zipfile, loc.element),
                 !.mime_type = HostMimeType(loc.fileobj.content),
                 !.bound = @ \cup {"zipinfo"}]
            /\ pc' = "render"
            /\ UNCHANGED result
    /\ UNCHANGED <<input, req, env, log, response, scripts>>

\* The object handed to the attachment.html template (lines 262-282).
ZipAttachment(attachment, resource) ==
    [kind |-> "_ZipAttachment",
     size |-> attachment.size, date |-> attachment.date,
     filename |-> resource.id,
     parent_realm |-> resource.parent.realm, parent_id |-> resource.parent.id,
     parent_resource |-> resource.parent]

\* Lines 249-317: the preview page.
Render ==
    /\ pc = "render"
    /\ req.args["format"] # s_rawdash
    /\ LET href == unicode_unquote(HostResourceUrl(loc.resource))
                   \o s_bangslash \o loc.name
           rawurl == Href(<<s_rawdash \o s_zip, href>>)
           preview == [kind |-> "preview", content |-> loc.fileobj.content,
                       length |-> loc.zipinfo.file_size,
                       mime_type |-> loc.mime_type, filename |-> loc.name,
                       url |-> rawurl]
       IN  /\ log' = Append(log, [ev |-> "add_link", href |-> rawurl])
           /\ IF loc.attachment # NoneObj
              THEN Return("attachment.html",
                          [preview |-> preview,
                           attachment |-> ZipAttachment(loc.attachment,
                                                        loc.context.resource)])
              ELSE Return("browser.html",
                          [preview |-> preview,
                           size |-> loc.node.content_length,
                           path_links |-> <<[name |-> loc.path,
                                             href |-> Href(<<s_browser, loc.path>>)],
                                            [name |-> <<"!">> \o loc.name,
                                             href |-> Href(<<s_zip, href>>)]>>,
                           reponame |-> loc.reponame,
                           created_path |-> loc.path])
    /\ UNCHANGED <<input, req, env, loc, response, scripts>>

Header(name, value) == [name |-> name, value |-> value]

NotModifiedInverted(last_modified, ims) == last_modified # ims
\* Line 323: last_modified == req.get_header('If-Modified-Since')
NotModified(last_modified, ims) == last_modified = ims

\* Lines 319-340: the raw download.
SendRaw ==
    /\ pc = "render"
    /\ req.args["format"] = s_rawdash
    /\ LET last_modified == http_date(loc.zipinfo.date_time)
       IN  IF NotModified(last_modified, req.ims)
           THEN response' = [response EXCEPT
                    !.status = Append(@, 304),
                    !.headers = Append(@, Header("Content-Length", 0)),
                    !.ended = TRUE]
           ELSE \E render_unsafe_content \in BOOLEAN :
                  response' = [response EXCEPT
                    !.status = Append(@, 200),
                    !.headers = @
                       \o (IF ~render_unsafe_content
                           THEN <<Header("Content-Disposition", "attachment")>>
                           ELSE <<>>)
                       \o (IF loc.mime_type # ""
                           THEN <<Header("Content-Type", loc.mime_type)>>
                           ELSE <<>>)
                       \o <<Header("Content-Length", loc.zipinfo.file_size),
                            Header("Last-Modified", last_modified)>>,
                    !.ended = TRUE,
                    !.body = loc.fileobj]
    /\ Raise("RequestDone")
    /\ UNCHANGED <<input, req, env, loc, log, scripts>>

\* Lines 354-358: the request filter run on the template a handler returned.
PostProcess ==
    /\ pc = "returned"
    /\ LET template == IF result.kind = "delegated" THEN result.answer.template
                                                    ELSE result.template
       IN  scripts' = IF template \in {"browser.html", "dir_entries.html"}
                      THEN scripts \cup {"archiveviewer/js/add_expander_for_zip.js"}
                      ELSE scripts
    /\ pc' = "done"
    /\ UNCHANGED <<input, req, env, loc, log, response, result>>

Next ==
    \/ MatchRequest
    \/ Begin
    \/ NormalizeRev
    \/ RequireAttachmentView
    \/ OpenAttachment
    \/ RequireFileView
    \/ LocateNode
    \/ GetContent
    \/ NotImplemented
    \/ LogName
    \/ OpenLayer
    \/ MakeContext
    \/ XhrListing
    \/ GetInfo
    \/ Render
    \/ SendRaw
    \/ PostProcess

Spec == Init /\ [][Next]_vars


(***************************************************************************)
(* Properties of the matcher and of link generation (under SpecMatch).     *)
(***************************************************************************)
Matched == pc = "matched"

\* What the claim says match_request decodes from a path given by its parts.
DecodesForm ==
    /\ result.matched
    /\ "attachment" \in DOMAIN req.args
    /\ req.args["attachment"] =
         Child(Resource(input.realm, input.id), s_attachment, input.archive, None)
    /\ req.args["path"] = s_bangslash \o input.inner
    /\ req.args["format"] = IF input.raw THEN s_rawdash ELSE None

\* C1: every path /<prefix>/attachment/<realm>/<id>/<archive>!/<inner> (realm
\* and archive non-empty path segments, realm without '/', id without '!',
\* archive without '/' and '!', inner non-empty) is matched and decoded into
\* that realm, id and archive, the path "!/" followed by the whole of inner,
\* and the format 'raw-' or nothing.
C1_MatchDecodesWholeInner ==
    (/\ Matched
     /\ input.kind = "form"
     /\ input.realm # <<>>
     /\ input.archive # <<>>)
    => DecodesForm

\* C10 as stated: the URL get_resource_url produces for a 'zip' resource
\* below an attachment is matched by match_request, which decodes from it
\* the resource's attachment, its inner path and its raw/non-raw format.
C10_LinkRoundTrip ==
    (Matched /\ input.kind = "link") =>
        /\ result.matched
        /\ "attachment" \in DOMAIN req.args
        /\ req.args["attachment"] = LinkAttachment(input.resource)
        /\ req.args["path"] = LinkInner(input.resource)
        /\ (req.args["format"] = s_rawdash) <=> (input.format = s_raw)


(***************************************************************************)
(* Properties of process_request (under Spec).                             *)
(***************************************************************************)
Finished == pc \in {"raised", "returned", "done"}

AttachmentRequest == input.kind = "handled" /\ input.target = s_attachment
BrowserRequest    == input.kind = "handled" /\ input.target # s_attachment

\* The member named nm of file f, as the ZIP format defines it.
Member(f, nm) ==
    f.infolist[CHOOSE k \in 1..Len(f.infolist) : f.infolist[k].filename = nm]

Holds(f, nm) ==
    /\ f.kind = "zip"
    /\ \E k \in 1..Len(f.infolist) : f.infolist[k].filename = nm

\* Every layer e1..en exists: e1 in f, e2 in the archive that e1 is, ...
RECURSIVE AllExist(_, _)
AllExist(f, es) ==
    \/ es = <<>>
    \/ /\ Holds(f, Head(es))
       /\ AllExist(Member(f, Head(es)).content, Tail(es))

\* Entry en of the innermost archive.
RECURSIVE Innermost(_, _)
Innermost(f, es) ==
    IF Len(es) = 1 THEN Member(f, Head(es))
    ELSE Innermost(Member(f, Head(es)).content, Tail(es))

\* The first layer whose archive opens but does not hold its entry (0: none).
RECURSIVE MissingLayer(_, _, _)
MissingLayer(f, es, k) ==
    IF es = <<>> \/ f.kind # "zip" THEN 0
    ELSE IF ~Holds(f, Head(es)) THEN k
    ELSE MissingLayer(Member(f, Head(es)).content, Tail(es), k + 1)

\* The layer steps in the order the claim gives: archive k is opened on the
\* entry found at layer k-1, and ek is looked up in it.
RECURSIVE LayerSteps(_, _, _)
LayerSteps(f, es, k) ==
    IF es = <<>> \/ f.kind # "zip" THEN <<>>
    ELSE <<[ev |-> "ZipFile", layer |-> k, of |-> f],
           [ev |-> "zipfile.open", layer |-> k, element |-> Head(es),
            found |-> Holds(f, Head(es))]>>
         \o (IF Holds(f, Head(es))
             THEN LayerSteps(Member(f, Head(es)).content, Tail(es), k + 1)
             ELSE <<>>)

IsLayerStep(e) == e.ev \in {"ZipFile", "zipfile.open"}
IsOpening(e)   == e.ev \in {"open", "ZipFile", "zipfile.open"}
IsOwnWork(e)   == e.ev \in {"require", "open", "ZipFile", "zipfile.open"}

IsPrefix(a, b) == Len(a) <= Len(b) /\ a = SubSeq(b, 1, Len(a))

HeaderIndices(name) ==
    {k \in 1..Len(response.headers) : response.headers[k].name = name}
HasHeader(name, value) ==
    /\ Cardinality(HeaderIndices(name)) = 1
    /\ \A k \in HeaderIndices(name) : response.headers[k].value = value

\* C2 as stated: an attachment request with inner path "!/e1!/.../en" walks
\* the layers in order, each archive opened on the entry found one layer
\* up; when every layer exists, what is previewed or streamed is entry en
\* of the innermost archive, and every size and modification time reported
\* with it is that entry's, never an outer layer's.
C2_InnermostEntryReported ==
    (AttachmentRequest /\ input.layers # <<>> /\ ~req.xhr) =>
        /\ IsPrefix(SelectSeq(log, IsLayerStep),
                    LayerSteps(env.store, input.layers, 1))
        /\ (Finished /\ AllExist(env.store, input.layers)
                /\ result.kind = "template") =>
              LET e == Innermost(env.store, input.layers) IN
              /\ result.data.preview.content = e.content
              /\ result.data.preview.length = e.file_size
              /\ result.data.attachment.size = e.file_size
              /\ result.data.attachment.date = e.date_time
        /\ (Finished /\ AllExist(env.store, input.layers)
                /\ response.status = <<200>>) =>
              LET e == Innermost(env.store, input.layers) IN
              /\ response.body.content = e.content
              /\ HasHeader("Content-Length", e.file_size)
              /\ HasHeader("Last-Modified", http_date(e.date_time))

\* C3 as stated: a repository request that is no XMLHttpRequest and not
\* raw, passes the FILE_VIEW check and names an existing inner entry gets
\* the 'browser.html' template with the entry's preview and a path link
\* for '!<inner path>'.
C3_BrowserPreview ==
    (/\ BrowserRequest
     /\ ~req.xhr
     /\ ~input.raw
     /\ env.perm
     /\ env.repo = "ok"
     /\ input.layers # <<>>
     /\ AllExist(env.store, input.layers)
     /\ Finished)
    => /\ result.kind = "template"
       /\ result.template = "browser.html"
       /\ result.data.preview.content =
            Innermost(env.store, input.layers).content
       /\ \E k \in 1..Len(result.data.path_links) :
            result.data.path_links[k].name =
                <<"!">> \o Join(input.layers, s_bangslash)

\* C4: an attachment request whose entry is missing at some layer of an
\* opened archive ends with ResourceNotFound; no later layer is opened,
\* nothing has been sent and no template is returned.
C4_MissingEntryNotFound ==
    /\ \A i \in 1..Len(log) :
         (log[i].ev = "zipfile.open" /\ ~log[i].found) =>
            /\ i = Len(log)
            /\ result = [kind |-> "raise", exc |-> "ResourceNotFound"]
            /\ response = NoResponse
    /\ (/\ AttachmentRequest
        /\ input.layers # <<>>
        /\ env.perm
        /\ MissingLayer(env.store, input.layers, 1) > 0
        /\ Finished)
       => /\ result = [kind |-> "raise", exc |-> "ResourceNotFound"]
          /\ pc = "raised"
          /\ response = NoResponse
          /\ \A i \in 1..Len(log) :
               IsLayerStep(log[i]) =>
                  log[i].layer <= MissingLayer(env.store, input.layers, 1)

\* C4 witness: the second layer's entry is missing from the archive the
\* first layer's entry is, and the request has ended.
C4_Witness ==
    /\ AttachmentRequest
    /\ pc = "raised"
    /\ MissingLayer(env.store, input.layers, 1) = 2
    /\ Len(log) > 0
    /\ log[Len(log)].ev = "zipfile.open"
    /\ log[Len(log)].layer = 2
    /\ ~log[Len(log)].found

\* C5 as stated: a request that carries neither an 'attachment' nor a
\* 'browser' resource fails with TracError 'Not Implemented' and no other
\* error, whatever its path and X-Requested-With, and opens no file.
C5_NotImplemented ==
    (/\ input.kind = "default"
     /\ "attachment" \notin DOMAIN req.args
     /\ "browser" \notin DOMAIN req.args
     /\ Finished)
    => /\ result = [kind |-> "raise", exc |-> "TracError: Not Implemented"]
       /\ \A i \in 1..Len(log) : ~IsOpening(log[i])

\* What C6 says of a finished raw request for an existing entry.
RawAnswer ==
    LET e == Innermost(env.store, input.layers) IN
    /\ result = [kind |-> "raise", exc |-> "RequestDone"]
    /\ Len(response.status) = 1
    /\ response.ended
    /\ IF req.ims = http_date(e.date_time)
       THEN /\ response.status = <<304>>
            /\ HasHeader("Content-Length", 0)
            /\ response.body = NoneObj
       ELSE /\ response.status = <<200>>
            /\ HasHeader("Content-Length", e.file_size)
            /\ HasHeader("Last-Modified", http_date(e.date_time))
            /\ response.body # NoneObj
            /\ response.body.content = e.content

RawRequest ==
    /\ AttachmentRequest
    /\ input.raw
    /\ ~req.xhr
    /\ input.layers # <<>>
    /\ AllExist(env.store, input.layers)

\* C6 as stated: a raw attachment request that is no XMLHttpRequest and
\* whose inner entry exists returns no template, sends exactly one status
\* and ends with RequestDone: 304 with Content-Length 0 and no body exactly
\* when If-Modified-Since equals the entry's HTTP date, else 200 with the
\* entry's size, date and content.
C6_AsStated ==
    RawRequest =>
        /\ result.kind \notin {"template", "delegated"}
        /\ Finished => RawAnswer
        /\ ~Finished => response = NoResponse

\* C6 amended: the same for requests that pass the ATTACHMENT_VIEW check.
C6_RawAnswer ==
    (RawRequest /\ env.perm) =>
        /\ result.kind \notin {"template", "delegated"}
        /\ Finished => RawAnswer
        /\ ~Finished => response = NoResponse

\* C6 witness: a raw request for the nested entry n!/a whose
\* If-Modified-Since is that entry's date was answered 304.
C6_Witness ==
    /\ RawRequest
    /\ env.perm
    /\ pc = "raised"
    /\ input.layers = <<<<"n">>, <<"a">>>>
    /\ response.status = <<304>>


\* The archive an XMLHttpRequest addresses: the stored file, or entry en.
Addressed ==
    IF input.layers = <<>> THEN env.store
    ELSE Innermost(env.store, input.layers).content

\* The members of archive f whose names do not end with '/'.
Listed(f) ==
    {k \in 1..Len(f.infolist) :
        f.infolist[k].filename[Len(f.infolist[k].filename)] # "/"}

\* C7 as stated: an XMLHttpRequest on a readable archive (attachment or
\* repository file, with or without inner path) gets the 'dir_entries.html'
\* template listing exactly the members of the addressed archive whose
\* names do not end with '/', each with its name and uncompressed size,
\* and nothing is sent.
C7_XhrListing ==
    (/\ input.kind = "handled"
     /\ req.xhr
     /\ env.perm
     /\ env.repo = "ok"
     /\ env.store # NoneObj
     /\ AllExist(env.store, input.layers)
     /\ Addressed.kind = "zip"
     /\ Finished)
    => /\ result.kind = "template"
       /\ result.template = "dir_entries.html"
       /\ Len(result.data.entries) = Cardinality(Listed(Addressed))
       /\ \A k \in Listed(Addressed) :
            \E j \in 1..Len(result.data.entries) :
               /\ result.data.entries[j].name = Addressed.infolist[k].filename
               /\ result.data.entries[j].content_length =
                    Addressed.infolist[k].file_size
       /\ response = NoResponse

\* The id of the resource the request was matched to.
MatchedId ==
    IF input.target = s_attachment THEN <<"z">> ELSE <<"r","/","z">>

\* C8: a matched request without inner path that is no XMLHttpRequest has
\* args['path'] set to the resource's id and is answered by the host
\* handler (BrowserModule for a browser request, AttachmentModule for an
\* attachment request); the plugin checks no permission, opens nothing and
\* sends nothing.
C8_Delegated ==
    (/\ input.kind = "handled"
     /\ input.layers = <<>>
     /\ ~req.xhr
     /\ pc \notin {"new", "matched"})
    => /\ Finished
       /\ result.kind = "delegated"
       /\ result.handler = (IF input.target = s_attachment
                            THEN "AttachmentModule" ELSE "BrowserModule")
       /\ result.answer \in HostAnswers(result.handler)
       /\ req.args["path"] = MatchedId
       /\ \A i \in 1..Len(log) : ~IsOwnWork(log[i])
       /\ response = NoResponse

\* C8 witness: a browser request without inner path was handed to
\* BrowserModule, whose template came back.
C8_Witness ==
    /\ input.kind = "handled"
    /\ input.target = s_browser
    /\ input.layers = <<>>
    /\ ~req.xhr
    /\ pc = "returned"
    /\ result.kind = "delegated"
    /\ result.handler = "BrowserModule"
    /\ req.args["path"] = <<"r","/","z">>

\* The permission a request for this target needs.
NeededAction(what) ==
    IF what = "attachment" THEN "ATTACHMENT_VIEW" ELSE "FILE_VIEW"

\* C9: whenever the plugin opens the attachment file or the node content,
\* the permission on the matched resource was checked and passed earlier
\* in the request; when the check fails nothing is opened, no archive is
\* read and nothing is sent.
C9_PermissionFirst ==
    /\ \A i \in 1..Len(log) :
         log[i].ev = "open" =>
            /\ env.perm
            /\ \E j \in 1..(i - 1) :
                 /\ log[j].ev = "require"
                 /\ log[j].passed
                 /\ log[j].action = NeededAction(log[i].what)
                 /\ log[j].resource.id = MatchedId
    /\ \A i \in 1..Len(log) : IsLayerStep(log[i]) =>
         \E j \in 1..(i - 1) : log[j].ev = "open"
    /\ ~env.perm =>
         /\ \A i \in 1..Len(log) : ~IsOpening(log[i])
         /\ response = NoResponse
         /\ (input.kind = "handled" /\ Finished /\ result.kind # "delegated")
               => result = [kind |-> "raise", exc |-> "PermissionError"]

\* C9 witness: the content of a repository node was opened after FILE_VIEW
\* was checked and passed.
C9_Witness ==
    /\ Len(log) = 2
    /\ log[1].ev = "require"
    /\ log[1].action = "FILE_VIEW"
    /\ log[1].passed
    /\ log[2].ev = "open"
    /\ log[2].what = "node"

=============================================================================
